---- MODULE Spec2Model ----
(***************************************************************************)
(* Model of app.py of the Voice-Cloning application: the three Gradio      *)
(* callbacks save_voice, clone_and_speak (Basic) and                       *)
(* clone_with_voice_design (Pro), the module-level saved_voice_path, the   *)
(* two fixed files they share (voices/my_voice.wav, generated_speech.mp3)  *)
(* and the ElevenLabs client they call (voices.add, text_to_speech.convert *)
(* and voices.delete), whose replies and failures are the environment's    *)
(* choice.                                                                 *)
(*                                                                         *)
(* Python strings are sequences of one-character strings, so that strip(), *)
(* lower() and the substring test `in` are computed as Python computes     *)
(* them.  The leading emoji of the status messages is left out of the      *)
(* message texts.                                                          *)
(***************************************************************************)
EXTENDS Integers, Sequences, FiniteSets, TLC

VARIABLES
    saved_voice_path,   \* the global of app.py:14
    voiceFile,          \* voices/my_voice.wav on disk
    outFile,            \* generated_speech.mp3 on disk
    remoteVoices,       \* voice ids that exist in the ElevenLabs account
    ncalls,             \* number of callback invocations started so far
    pc,                 \* position of each handler in its callback
    op,                 \* callback a handler is running: save, basic, pro
    id,                 \* invocation number of the handler's current call
    args,               \* arguments the current call was given
    voice_id,           \* local voice_id / voice.voice_id (0: none yet)
    calls,              \* external API calls and file closes of the call
    consumed,           \* chunks pulled from the audio generator
    pos,                \* offset of the call's handle on the output file
    outBefore,          \* generated_speech.mp3 as it was when the call began
    error_msg,          \* local error_msg of the except clause
    result              \* what the callback returned

vars == <<saved_voice_path, voiceFile, outFile, remoteVoices, ncalls, pc, op,
          id, args, voice_id, calls, consumed, pos, outBefore, error_msg,
          result>>

-----------------------------------------------------------------------------
(* Bounds of the model *)

MaxCalls == 3       \* callback invocations in one behaviour
MaxChunks == 2      \* chunks the audio generator yields for one request

Handlers == {"h1", "h2"}    \* worker threads that run the callbacks

-----------------------------------------------------------------------------
(* Python strings *)

UpperChars == <<"A","B","C","D","E","F","G","H","I","J","K","L","M",
                "N","O","P","Q","R","S","T","U","V","W","X","Y","Z">>
LowerChars == <<"a","b","c","d","e","f","g","h","i","j","k","l","m",
                "n","o","p","q","r","s","t","u","v","w","x","y","z">>

LowerChar(c) ==
    IF \E i \in 1..Len(UpperChars) : UpperChars[i] = c
    THEN LowerChars[CHOOSE i \in 1..Len(UpperChars) : UpperChars[i] = c]
    ELSE c

\* str.lower()
Lower(s) == [i \in 1..Len(s) |-> LowerChar(s[i])]

\* `sub in s`
Contains(s, sub) ==
    \E i \in 0..(Len(s) - Len(sub)) :
        \A j \in 1..Len(sub) : s[i + j] = sub[j]

Whitespace == {" ", "\t", "\n"}

\* str.strip()
Strip(s) ==
    LET keep == {i \in 1..Len(s) : s[i] \notin Whitespace}
    IN  IF keep = {} THEN <<>>
        ELSE LET lo == CHOOSE i \in keep : \A j \in keep : i <= j
                 hi == CHOOSE i \in keep : \A j \in keep : j <= i
             IN  SubSeq(s, lo, hi)

\* A Python value handed to a callback: None or a str
NoneVal == [isNone |-> TRUE, str |-> <<>>]
Str(s) == [isNone |-> FALSE, str |-> s]

-----------------------------------------------------------------------------
(* The substrings the except clauses look for *)

kwInvalidApiKey == <<"i","n","v","a","l","i","d","_","a","p","i","_","k","e","y">>
kwUnauthorized == <<"u","n","a","u","t","h","o","r","i","z","e","d">>
kw401 == <<"4","0","1">>
kwQuota == <<"q","u","o","t","a">>
kwLimit == <<"l","i","m","i","t">>
kwSubscription == <<"s","u","b","s","c","r","i","p","t","i","o","n">>
kwPlan == <<"p","l","a","n">>
kw403 == <<"4","0","3">>

\* Words of the error texts str(e) is drawn from: the searched substrings,
\* spellings of them in other cases, words that contain them, pieces that
\* form one only across a join, and words that match nothing.
ErrWords ==
    { <<"i","n","v","a","l","i","d","_","a","p","i","_","k","e","y">>,
      <<"I","n","v","a","l","i","d","_","A","P","I","_","K","e","y">>,
      <<"u","n","a","u","t","h","o","r","i","z","e","d">>,
      <<"U","n","a","u","t","h","o","r","i","z","e","d">>,
      <<"4","0","1">>,
      <<"q","u","o","t","a">>,
      <<"Q","U","O","T","A">>,
      <<"l","i","m","i","t">>,
      <<"u","n","l","i","m","i","t","e","d">>,
      <<"s","u","b","s","c","r","i","p","t","i","o","n">>,
      <<"P","l","a","n">>,
      <<"e","x","p","l","a","n","a","t","i","o","n">>,
      <<"4","0","3">>,
      <<"4","0">>,
      <<"3">>,
      <<"1">>,
      <<"t","i","m","e","o","u","t">>,
      <<"5","0","0">>,
      <<" ">> }

\* Every error text of one or two words
AllErrMsgs == ErrWords \cup {a \o b : a \in ErrWords, b \in ErrWords}

\* The error texts the external calls and file operations fail with in the
\* specifications of the whole program
ErrMsgs == { <<"4","0","1">>, <<"q","u","o","t","a">>, <<"t","i","m","e","o","u","t">> }

-----------------------------------------------------------------------------
(* Status messages *)

MsgNoAudio == "No audio recorded. Please record your voice first."
MsgSaved == "Voice saved successfully to voices/my_voice.wav!"
MsgSaveError == "Error saving voice: "
MsgEmptyText == "Please enter some text to generate speech."
MsgNoKey == "Please enter your ElevenLabs API key."
MsgNoVoice == "No voice saved. Please record and save your voice first."
MsgBasicOk == "Speech generated using YOUR voice! Listen below."
MsgProOk == "Speech generated with voice cloning! Listen below."
MsgInvalidKey == "Invalid API key. Please check your ElevenLabs API key."
MsgQuota == "API quota exceeded. Please check your ElevenLabs account."
MsgPlan == "Instant Voice Cloning via API requires a 'Starter' plan or higher. Free users can only use character-based voices in the Dashboard."
MsgBasicError == "Error generating speech: "
MsgProPlan == "Voice cloning requires a paid ElevenLabs plan. Try the basic method instead."
MsgProError == "Error with voice cloning: "

\* A message: a fixed text, followed by the interpolated {str(e)} if any
Msg(text, e) == [text |-> text, e |-> e]

None == "None"
VoiceFilename == "voices/my_voice.wav"
output_path == "generated_speech.mp3"

\* What a callback handed back: nothing yet, save_voice's string, a
\* generation's pair, or an exception that left the callback
NoResult == [kind |-> "none", path |-> None, msg |-> Msg("", <<>>)]
Status(m) == [kind |-> "status", path |-> None, msg |-> m]
Pair(p, m) == [kind |-> "pair", path |-> p, msg |-> m]
Raised == [kind |-> "raised", path |-> None, msg |-> Msg("", <<>>)]

-----------------------------------------------------------------------------
(* Error classification of the except clauses *)

\* the first test of both except clauses
IsCredentialError(e) ==
    \/ Contains(Lower(e), kwInvalidApiKey)
    \/ Contains(Lower(e), kwUnauthorized)
    \/ Contains(e, kw401)

\* ClassifyBasic with the plan test moved before the quota test
ClassifyBasicPlanFirst(e) ==
    IF IsCredentialError(e) THEN Msg(MsgInvalidKey, <<>>)
    ELSE IF \/ Contains(Lower(e), kwSubscription)
            \/ Contains(Lower(e), kwPlan)
            \/ Contains(e, kw403)
         THEN Msg(MsgPlan, <<>>)
    ELSE IF Contains(Lower(e), kwQuota) \/ Contains(Lower(e), kwLimit)
         THEN Msg(MsgQuota, <<>>)
    ELSE Msg(MsgBasicError, e)

\* clone_and_speak, except clause
ClassifyBasic(e) ==
    IF IsCredentialError(e) THEN Msg(MsgInvalidKey, <<>>)
    ELSE IF Contains(Lower(e), kwQuota) \/ Contains(Lower(e), kwLimit)
         THEN Msg(MsgQuota, <<>>)
    ELSE IF \/ Contains(Lower(e), kwSubscription)
            \/ Contains(Lower(e), kwPlan)
            \/ Contains(e, kw403)
         THEN Msg(MsgPlan, <<>>)
    ELSE Msg(MsgBasicError, e)

\* clone_with_voice_design, except clause
ClassifyPro(e) ==
    IF IsCredentialError(e) THEN Msg(MsgInvalidKey, <<>>)
    ELSE IF \/ Contains(Lower(e), kwQuota)
            \/ Contains(Lower(e), kwSubscription)
            \/ Contains(Lower(e), kwPlan)
         THEN Msg(MsgProPlan, <<>>)
    ELSE Msg(MsgProError, e)

Classify(mode, e) == IF mode = "basic" THEN ClassifyBasic(e) ELSE ClassifyPro(e)

-----------------------------------------------------------------------------
(* Files and the call log *)

Absent == [exists |-> FALSE, data |-> <<>>]
File(d) == [exists |-> TRUE, data |-> d]

\* os.path.exists(path), for the two paths the program uses
Exists(path) ==
    \/ path = VoiceFilename /\ voiceFile.exists
    \/ path = output_path /\ outFile.exists

\* f.write(chunk) on a handle at offset `at` (counted in chunks): the chunk
\* replaces what is there, extends the file, or lands behind a hole of zeros
\* (tag 0) when the file was truncated under the handle
WriteAt(d, at, tag) ==
    [i \in 1..(IF Len(d) > at THEN Len(d) ELSE at + 1) |->
        IF i = at + 1 THEN tag ELSE IF i <= Len(d) THEN d[i] ELSE 0]

\* One external call of a callback, or the close of its output file
Call(api, arg, ok) == [api |-> api, arg |-> arg, ok |-> ok]

NoArgs == [audio |-> FALSE, text |-> NoneVal, key |-> NoneVal]

-----------------------------------------------------------------------------
(* Validation of clone_and_speak and clone_with_voice_design *)

\* BlankCheck without the `not v` test: `v.strip() == ""` alone
BlankCheckStripOnly(v) ==
    IF v.isNone THEN "raise"
    ELSE IF Strip(v.str) = <<>> THEN "blank"
    ELSE "ok"

\* `not v or v.strip() == ""`: "blank", "ok", or "raise" when .strip() is
\* applied to None
BlankCheck(v) ==
    IF v.isNone \/ v.str = <<>> THEN "blank"
    ELSE IF v.isNone THEN "raise"
    ELSE IF Strip(v.str) = <<>> THEN "blank"
    ELSE "ok"

\* Validate with the key checked before the text
ValidateKeyFirst(text, key) ==
    IF BlankCheck(key) = "raise" THEN "raise"
    ELSE IF BlankCheck(key) = "blank" THEN MsgNoKey
    ELSE IF BlankCheck(text) = "raise" THEN "raise"
    ELSE IF BlankCheck(text) = "blank" THEN MsgEmptyText
    ELSE IF saved_voice_path = None \/ ~Exists(saved_voice_path) THEN MsgNoVoice
    ELSE "ok"

\* The three checks in the order of the code: the message of the first one
\* that fails, "raise" or "ok"
Validate(text, key) ==
    IF BlankCheck(text) = "raise" THEN "raise"
    ELSE IF BlankCheck(text) = "blank" THEN MsgEmptyText
    ELSE IF BlankCheck(key) = "raise" THEN "raise"
    ELSE IF BlankCheck(key) = "blank" THEN MsgNoKey
    ELSE IF saved_voice_path = None \/ ~Exists(saved_voice_path) THEN MsgNoVoice
    ELSE "ok"

\* The values the two text boxes hand to the callbacks
Texts == { NoneVal, Str(<<>>), Str(<<" ", "\t", "\n">>), Str(<<"h", "i">>),
           Str(<<" ", "h", "i", " ">>) }
Keys == { NoneVal, Str(<<>>), Str(<<" ", " ">>), Str(<<"s", "k">>),
          Str(<<" ", "s", "k", "\n">>) }

-----------------------------------------------------------------------------
(* Initial state: the module has been imported *)

Init ==
    /\ saved_voice_path = None
    /\ voiceFile \in {Absent, File(<<0>>)}    \* a recording of an earlier run
    /\ outFile \in {Absent, File(<<0>>)}      \* an output of an earlier run
    /\ remoteVoices = {}
    /\ ncalls = 0
    /\ pc = [p \in Handlers |-> "idle"]
    /\ op = [p \in Handlers |-> "save"]
    /\ id = [p \in Handlers |-> 0]
    /\ args = [p \in Handlers |-> NoArgs]
    /\ voice_id = [p \in Handlers |-> 0]
    /\ calls = [p \in Handlers |-> <<>>]
    /\ consumed = [p \in Handlers |-> 0]
    /\ pos = [p \in Handlers |-> 0]
    /\ outBefore = [p \in Handlers |-> outFile]
    /\ error_msg = [p \in Handlers |-> <<>>]
    /\ result = [p \in Handlers |-> NoResult]

\* A handler is free to take the next click
Free(p) == pc[p] \in {"idle", "done"}

\* Entry of a callback: fresh locals
Enter(p, callback, a) ==
    /\ Free(p)
    /\ ncalls < MaxCalls
    /\ ncalls' = ncalls + 1
    /\ op' = [op EXCEPT ![p] = callback]
    /\ id' = [id EXCEPT ![p] = ncalls + 1]
    /\ args' = [args EXCEPT ![p] = a]
    /\ voice_id' = [voice_id EXCEPT ![p] = 0]
    /\ calls' = [calls EXCEPT ![p] = <<>>]
    /\ consumed' = [consumed EXCEPT ![p] = 0]
    /\ pos' = [pos EXCEPT ![p] = 0]
    /\ outBefore' = [outBefore EXCEPT ![p] = outFile]
    /\ error_msg' = [error_msg EXCEPT ![p] = <<>>]

Return(p, r) ==
    /\ pc' = [pc EXCEPT ![p] = "done"]
    /\ result' = [result EXCEPT ![p] = r]

Goto(p, label) ==
    /\ pc' = [pc EXCEPT ![p] = label]
    /\ UNCHANGED result

Log(p, c) == calls' = [calls EXCEPT ![p] = Append(@, c)]

-----------------------------------------------------------------------------
(* save_voice *)

\* SaveNone that forgets the saved recording
SaveNoneClears(p) ==
    /\ Enter(p, "save", NoArgs)
    /\ Return(p, Status(Msg(MsgNoAudio, <<>>)))
    /\ saved_voice_path' = None
    /\ UNCHANGED <<voiceFile, outFile, remoteVoices>>

\* audio_tuple is None
SaveNone(p) ==
    /\ Enter(p, "save", NoArgs)
    /\ Return(p, Status(Msg(MsgNoAudio, <<>>)))
    /\ UNCHANGED <<saved_voice_path, voiceFile, outFile, remoteVoices>>

\* audio_tuple is a (sample_rate, audio_data) pair: the try block is entered
SaveBegin(p) ==
    /\ Enter(p, "save", [NoArgs EXCEPT !.audio = TRUE])
    /\ pc' = [pc EXCEPT ![p] = "sf_write"]
    /\ result' = [result EXCEPT ![p] = NoResult]
    /\ UNCHANGED <<saved_voice_path, voiceFile, outFile, remoteVoices>>

\* SfWriteOk without the `global` declaration: the path is set in a local
SfWriteOkLocal(p) ==
    /\ pc[p] = "sf_write"
    /\ voiceFile' = File(<<id[p]>>)
    /\ Return(p, Status(Msg(MsgSaved, <<>>)))
    /\ UNCHANGED <<saved_voice_path, outFile, remoteVoices, ncalls, outBefore,
                   op, id, args, voice_id, calls, consumed, pos, error_msg>>

\* sf.write succeeds; the global is set; the success message is returned
SfWriteOk(p) ==
    /\ pc[p] = "sf_write"
    /\ voiceFile' = File(<<id[p]>>)
    /\ saved_voice_path' = VoiceFilename
    /\ Return(p, Status(Msg(MsgSaved, <<>>)))
    /\ UNCHANGED <<outFile, remoteVoices, ncalls, outBefore, op, id, args, voice_id,
                   calls, consumed, pos, error_msg>>

\* sf.write raises, before or after it created the file anew
SfWriteFail(p, e, created) ==
    /\ pc[p] = "sf_write"
    /\ voiceFile' = IF created THEN File(<<>>) ELSE voiceFile
    /\ error_msg' = [error_msg EXCEPT ![p] = e]
    /\ Return(p, Status(Msg(MsgSaveError, e)))
    /\ UNCHANGED <<saved_voice_path, outFile, remoteVoices, ncalls, outBefore, op, id,
                   args, voice_id, calls, consumed, pos>>

-----------------------------------------------------------------------------
(* clone_and_speak and clone_with_voice_design *)

SuccessMsg(mode) == IF mode = "basic" THEN MsgBasicOk ELSE MsgProOk

\* The callback is entered and validates its arguments
GenStart(p, mode, text, key) ==
    /\ Enter(p, mode, [NoArgs EXCEPT !.text = text, !.key = key])
    /\ LET v == Validate(text, key)
       IN  /\ pc' = [pc EXCEPT ![p] = IF v = "ok" THEN "clone" ELSE "done"]
           /\ result' = [result EXCEPT ![p] =
                  IF v = "ok" THEN NoResult
                  ELSE IF v = "raise" THEN Raised
                  ELSE Pair(None, Msg(v, <<>>))]
    /\ UNCHANGED <<saved_voice_path, voiceFile, outFile, remoteVoices>>

\* The outer except clause: classify str(e) and return (None, message)
Fail(p, e) ==
    /\ error_msg' = [error_msg EXCEPT ![p] = e]
    /\ Return(p, Pair(None, Classify(op[p], e)))

\* The id the API gives a new voice: one it never gave before
NewVoiceId(p) == id[p]

\* client.voices.add succeeds (Basic has opened the sample first)
CloneOk(p) ==
    /\ pc[p] = "clone"
    /\ op[p] = "basic" => voiceFile.exists
    /\ voice_id' = [voice_id EXCEPT ![p] = NewVoiceId(p)]
    /\ remoteVoices' = remoteVoices \cup {NewVoiceId(p)}
    /\ Log(p, Call("add", NewVoiceId(p), TRUE))
    /\ Goto(p, "convert")
    /\ UNCHANGED <<saved_voice_path, voiceFile, outFile, ncalls, outBefore, op, id, args,
                   consumed, pos, error_msg>>

\* CloneFail of a callback that opens the output file before it clones
CloneFailAfterOpen(p, e) ==
    /\ pc[p] = "clone"
    /\ Log(p, Call("add", 0, FALSE))
    /\ outFile' = File(<<>>)
    /\ error_msg' = [error_msg EXCEPT ![p] = e]
    /\ Return(p, Pair(None, Classify(op[p], e)))
    /\ UNCHANGED <<saved_voice_path, voiceFile, remoteVoices, ncalls, outBefore,
                   op, id, args, voice_id, consumed, pos>>

\* Basic's open(saved_voice_path, 'rb') raises (the file is gone), or
\* client.voices.add raises
CloneFail(p, e) ==
    /\ pc[p] = "clone"
    /\ IF op[p] = "basic" /\ ~voiceFile.exists
       THEN UNCHANGED calls
       ELSE Log(p, Call("add", 0, FALSE))
    /\ Fail(p, e)
    /\ UNCHANGED <<saved_voice_path, voiceFile, outFile, remoteVoices, ncalls, outBefore,
                   op, id, args, voice_id, consumed, pos>>

\* client.text_to_speech.convert returns the chunk generator
ConvertOk(p) ==
    /\ pc[p] = "convert"
    /\ Log(p, Call("convert", voice_id[p], TRUE))
    /\ Goto(p, "open")
    /\ UNCHANGED <<saved_voice_path, voiceFile, outFile, remoteVoices, ncalls, outBefore,
                   op, id, args, voice_id, consumed, pos, error_msg>>

\* client.text_to_speech.convert raises
ConvertFail(p, e) ==
    /\ pc[p] = "convert"
    /\ Log(p, Call("convert", voice_id[p], FALSE))
    /\ Fail(p, e)
    /\ UNCHANGED <<saved_voice_path, voiceFile, outFile, remoteVoices, ncalls, outBefore,
                   op, id, args, voice_id, consumed, pos>>

\* OpenOut that waits while another handler has the output file open
OpenOutLocked(p) ==
    /\ pc[p] = "open"
    /\ \A q \in Handlers : pc[q] # "stream"
    /\ outFile' = File(<<>>)
    /\ pos' = [pos EXCEPT ![p] = 0]
    /\ Goto(p, "stream")
    /\ UNCHANGED <<saved_voice_path, voiceFile, remoteVoices, ncalls, outBefore,
                   op, id, args, voice_id, calls, consumed, error_msg>>

\* open(output_path, 'wb'): the file is created or truncated
OpenOut(p) ==
    /\ pc[p] = "open"
    /\ outFile' = File(<<>>)
    /\ pos' = [pos EXCEPT ![p] = 0]
    /\ Goto(p, "stream")
    /\ UNCHANGED <<saved_voice_path, voiceFile, remoteVoices, ncalls, outBefore, op, id,
                   args, voice_id, calls, consumed, error_msg>>

\* open(output_path, 'wb') raises
OpenFail(p, e) ==
    /\ pc[p] = "open"
    /\ Fail(p, e)
    /\ UNCHANGED <<saved_voice_path, voiceFile, outFile, remoteVoices, ncalls, outBefore,
                   op, id, args, voice_id, calls, consumed, pos>>

\* The generator yields a non-empty chunk, which is written
WriteChunk(p) ==
    /\ pc[p] = "stream"
    /\ consumed[p] < MaxChunks
    /\ consumed' = [consumed EXCEPT ![p] = @ + 1]
    /\ outFile' = File(WriteAt(outFile.data, pos[p], id[p]))
    /\ pos' = [pos EXCEPT ![p] = @ + 1]
    /\ UNCHANGED <<saved_voice_path, voiceFile, remoteVoices, ncalls, outBefore, pc, op,
                   id, args, voice_id, calls, error_msg, result>>

\* The generator yields an empty chunk, which is skipped
SkipChunk(p) ==
    /\ pc[p] = "stream"
    /\ consumed[p] < MaxChunks
    /\ consumed' = [consumed EXCEPT ![p] = @ + 1]
    /\ UNCHANGED <<saved_voice_path, voiceFile, outFile, remoteVoices, ncalls, outBefore,
                   pc, op, id, args, voice_id, calls, pos, error_msg, result>>

\* The generator (the HTTP stream) or f.write raises; the with block closes
\* the file
StreamFail(p, e) ==
    /\ pc[p] = "stream"
    /\ Log(p, Call("close", 0, FALSE))
    /\ Fail(p, e)
    /\ UNCHANGED <<saved_voice_path, voiceFile, outFile, remoteVoices, ncalls, outBefore,
                   op, id, args, voice_id, consumed, pos>>

\* EndStream of a callback that returns without the cleanup step
EndStreamNoCleanup(p) ==
    /\ pc[p] = "stream"
    /\ Log(p, Call("close", 0, TRUE))
    /\ Return(p, Pair(output_path, Msg(SuccessMsg(op[p]), <<>>)))
    /\ UNCHANGED <<saved_voice_path, voiceFile, outFile, remoteVoices, ncalls,
                   outBefore, op, id, args, voice_id, consumed, pos, error_msg>>

\* The generator is exhausted; the with block closes the file
EndStream(p) ==
    /\ pc[p] = "stream"
    /\ Log(p, Call("close", 0, TRUE))
    /\ Goto(p, "delete")
    /\ UNCHANGED <<saved_voice_path, voiceFile, outFile, remoteVoices, ncalls, outBefore,
                   op, id, args, voice_id, consumed, pos, error_msg>>

\* AfterDeleteRaised without the inner try: the outer except clause reports e
AfterDeleteRaisedOuter(mode, e) == Pair(None, Classify(mode, e))

\* What the callback returns when client.voices.delete raised e: the inner
\* except clause passes and the success pair is returned
AfterDeleteRaised(mode, e) == Pair(output_path, Msg(SuccessMsg(mode), <<>>))

\* client.voices.delete succeeds; the success pair is returned
DeleteOk(p) ==
    /\ pc[p] = "delete"
    /\ Log(p, Call("delete", voice_id[p], TRUE))
    /\ remoteVoices' = remoteVoices \ {voice_id[p]}
    /\ Return(p, Pair(output_path, Msg(SuccessMsg(op[p]), <<>>)))
    /\ UNCHANGED <<saved_voice_path, voiceFile, outFile, ncalls, outBefore, op, id, args,
                   voice_id, consumed, pos, error_msg>>

\* client.voices.delete raises
DeleteFail(p, e) ==
    /\ pc[p] = "delete"
    /\ Log(p, Call("delete", voice_id[p], FALSE))
    /\ Return(p, AfterDeleteRaised(op[p], e))
    /\ UNCHANGED <<saved_voice_path, voiceFile, outFile, remoteVoices, ncalls, outBefore,
                   op, id, args, voice_id, consumed, pos, error_msg>>

-----------------------------------------------------------------------------
(* The environment *)

\* The user removes voices/my_voice.wav from the disk
RemoveVoiceFile ==
    /\ voiceFile.exists
    /\ voiceFile' = Absent
    /\ UNCHANGED <<saved_voice_path, outFile, remoteVoices, ncalls, outBefore, pc, op, id,
                   args, voice_id, calls, consumed, pos, error_msg, result>>

-----------------------------------------------------------------------------
(* Specifications *)

Modes == {"basic", "pro"}

\* A click: one of the three callbacks is entered
Click(p) ==
    \/ SaveNone(p)
    \/ SaveBegin(p)
    \/ \E mode \in Modes, text \in Texts, key \in Keys : GenStart(p, mode, text, key)

\* A step of a callback that is running; E: the texts its failures carry
StepWith(p, E) ==
    \/ SfWriteOk(p)
    \/ \E e \in E, created \in BOOLEAN : SfWriteFail(p, e, created)
    \/ CloneOk(p)
    \/ \E e \in E : CloneFail(p, e)
    \/ ConvertOk(p)
    \/ \E e \in E : ConvertFail(p, e)
    \/ OpenOut(p)
    \/ \E e \in E : OpenFail(p, e)
    \/ WriteChunk(p)
    \/ SkipChunk(p)
    \/ \E e \in E : StreamFail(p, e)
    \/ EndStream(p)
    \/ DeleteOk(p)
    \/ \E e \in E : DeleteFail(p, e)

Step(p) == StepWith(p, ErrMsgs)

\* The thread that serves the clicks of one user, one click at a time
Worker == "h1"

\* One user, synchronous clicks: a callback returns before the next is entered
Next ==
    \/ Click(Worker)
    \/ Step(Worker)
    \/ RemoveVoiceFile

Spec == Init /\ [][Next]_vars

\* The state after the first click saved a recording
Saved ==
    /\ saved_voice_path = VoiceFilename
    /\ voiceFile = File(<<1>>)
    /\ outFile \in {Absent, File(<<0>>)}
    /\ remoteVoices = {}
    /\ ncalls = 1
    /\ pc = [p \in Handlers |-> IF p = Worker THEN "done" ELSE "idle"]
    /\ op = [p \in Handlers |-> "save"]
    /\ id = [p \in Handlers |-> IF p = Worker THEN 1 ELSE 0]
    /\ args = [p \in Handlers |->
                  IF p = Worker THEN [NoArgs EXCEPT !.audio = TRUE] ELSE NoArgs]
    /\ voice_id = [p \in Handlers |-> 0]
    /\ calls = [p \in Handlers |-> <<>>]
    /\ consumed = [p \in Handlers |-> 0]
    /\ pos = [p \in Handlers |-> 0]
    /\ outBefore = [p \in Handlers |-> outFile]
    /\ error_msg = [p \in Handlers |-> <<>>]
    /\ result = [p \in Handlers |->
                    IF p = Worker THEN Status(Msg(MsgSaved, <<>>)) ELSE NoResult]

\* A click with arguments that pass the checks on text and key
GoodClick(p) ==
    \/ SaveBegin(p)
    \/ \E mode \in Modes : GenStart(p, mode, Str(<<"h", "i">>), Str(<<"s", "k">>))

\* Two overlapping clicks once a recording was saved: each of two threads
\* serves one click, with no lock between them, so that a callback may be
\* entered while the other one runs
ConcNext ==
    \/ \E p \in Handlers : id[p] <= 1 /\ GoodClick(p)
    \/ \E p \in Handlers : StepWith(p, {<<"t","i","m","e","o","u","t">>})

ConcSpec == Saved /\ [][ConcNext]_vars

\* The callbacks at the start of their try blocks: a save that is about to
\* write, or a generation (Basic or Pro) that passed validation after the
\* first click saved a recording
InTry ==
    \/ /\ saved_voice_path = None
       /\ voiceFile = Absent
       /\ outFile = Absent
       /\ remoteVoices = {}
       /\ ncalls = 1
       /\ pc = [p \in Handlers |-> IF p = Worker THEN "sf_write" ELSE "idle"]
       /\ op = [p \in Handlers |-> "save"]
       /\ id = [p \in Handlers |-> IF p = Worker THEN 1 ELSE 0]
       /\ args = [p \in Handlers |->
                     IF p = Worker THEN [NoArgs EXCEPT !.audio = TRUE] ELSE NoArgs]
       /\ voice_id = [p \in Handlers |-> 0]
       /\ calls = [p \in Handlers |-> <<>>]
       /\ consumed = [p \in Handlers |-> 0]
       /\ pos = [p \in Handlers |-> 0]
       /\ outBefore = [p \in Handlers |-> Absent]
       /\ error_msg = [p \in Handlers |-> <<>>]
       /\ result = [p \in Handlers |-> NoResult]
    \/ \E mode \in Modes :
       /\ saved_voice_path = VoiceFilename
       /\ voiceFile = File(<<1>>)
       /\ outFile = Absent
       /\ remoteVoices = {}
       /\ ncalls = 2
       /\ pc = [p \in Handlers |-> IF p = Worker THEN "clone" ELSE "idle"]
       /\ op = [p \in Handlers |-> IF p = Worker THEN mode ELSE "save"]
       /\ id = [p \in Handlers |-> IF p = Worker THEN 2 ELSE 0]
       /\ args = [p \in Handlers |->
                     IF p = Worker
                     THEN [NoArgs EXCEPT !.text = Str(<<"h", "i">>),
                                         !.key = Str(<<"s", "k">>)]
                     ELSE NoArgs]
       /\ voice_id = [p \in Handlers |-> 0]
       /\ calls = [p \in Handlers |-> <<>>]
       /\ consumed = [p \in Handlers |-> 0]
       /\ pos = [p \in Handlers |-> 0]
       /\ outBefore = [p \in Handlers |-> Absent]
       /\ error_msg = [p \in Handlers |-> <<>>]
       /\ result = [p \in Handlers |-> NoResult]

\* One callback from its try block on, its failures carrying every error text
ClassifyNext == StepWith(Worker, AllErrMsgs)

ClassifySpec == InTry /\ [][ClassifyNext]_vars

-----------------------------------------------------------------------------
(* Notions the properties are stated in *)

\* Handler p has returned from a generation callback
GenDone(p) == pc[p] = "done" /\ op[p] \in Modes

\* Handler p has returned from a generation callback through its outer except
\* clause, which classified error_msg[p]
Excepted(p) ==
    /\ GenDone(p)
    /\ result[p].kind = "pair"
    /\ result[p].path = None
    /\ result[p].msg.text \notin {MsgEmptyText, MsgNoKey, MsgNoVoice}

\* Some call of handler p's current callback matches
Called(p, api, ok) == \E i \in 1..Len(calls[p]) : calls[p][i].api = api /\ calls[p][i].ok = ok

\* The delete-voice calls of handler p's current callback
Deletes(p) == {i \in 1..Len(calls[p]) : calls[p][i].api = "delete"}

\* The success pair of a mode
Success(mode) == Pair(output_path, Msg(SuccessMsg(mode), <<>>))

-----------------------------------------------------------------------------
(* C1 *)

\* C1: whenever a generation call has returned and its clone step returned a
\* voice id, a delete-voice call for that id was attempted in that call,
\* whether synthesis succeeded or failed.
C1_DeleteAttemptedAfterClone ==
    \A p \in Handlers :
        GenDone(p) /\ voice_id[p] # 0 =>
            \E i \in Deletes(p) : calls[p][i].arg = voice_id[p]

-----------------------------------------------------------------------------
(* C2 *)

\* The category a status message stands for
Category(text) ==
    IF text = MsgInvalidKey THEN "InvalidCredentialError"
    ELSE IF text = MsgQuota THEN "QuotaExceededError"
    ELSE IF text \in {MsgPlan, MsgProPlan} THEN "InsufficientPlanError"
    ELSE IF text \in {MsgBasicError, MsgProError} THEN "GenerationError"
    ELSE "other"

Has(e, kw) == Contains(Lower(e), kw)

\* The rules of the claim, in its order
ClaimedCategory(e) ==
    IF Has(e, kwInvalidApiKey) \/ Has(e, kwUnauthorized) \/ Has(e, kw401)
    THEN "InvalidCredentialError"
    ELSE IF Has(e, kwQuota) \/ Has(e, kwLimit) THEN "QuotaExceededError"
    ELSE IF Has(e, kwSubscription) \/ Has(e, kwPlan) \/ Has(e, kw403)
    THEN "InsufficientPlanError"
    ELSE "GenerationError"

\* The rules Pro mode follows
ProCategory(e) ==
    IF Has(e, kwInvalidApiKey) \/ Has(e, kwUnauthorized) \/ Has(e, kw401)
    THEN "InvalidCredentialError"
    ELSE IF Has(e, kwQuota) \/ Has(e, kwSubscription) \/ Has(e, kwPlan)
    THEN "InsufficientPlanError"
    ELSE "GenerationError"

\* The returned message is of category c, and a GenerationError carries the
\* raw error text
Reports(p, c) ==
    /\ Category(result[p].msg.text) = c
    /\ result[p].msg.e = IF c = "GenerationError" THEN error_msg[p] ELSE <<>>

\* C2 as claimed: every failure of the clone or synthesize step, in Basic and
\* in Pro mode, is reported as (None, message) of the category the claim's
\* ordered rules give for the error text.
C2_SameRulesInBothModes ==
    \A p \in Handlers : Excepted(p) => Reports(p, ClaimedCategory(error_msg[p]))

\* C2 as amended: Basic mode follows the claim's ordered rules; Pro mode
\* reports InvalidCredentialError by the same first rule, else its paid-plan
\* message for "quota", "subscription" or "plan", else its generic error with
\* the raw text ("limit" and "403" are not looked for).
C2_RulesPerMode ==
    \A p \in Handlers :
        Excepted(p) =>
            /\ op[p] = "basic" => Reports(p, ClaimedCategory(error_msg[p]))
            /\ op[p] = "pro" => Reports(p, ProCategory(error_msg[p]))
            /\ result[p].msg.text \in
                   IF op[p] = "basic"
                   THEN {MsgInvalidKey, MsgQuota, MsgPlan, MsgBasicError}
                   ELSE {MsgInvalidKey, MsgProPlan, MsgProError}

\* A Pro generation failed with a text that holds "limit" and none of Pro's
\* substrings, and was reported as a generic error
C2_Witness ==
    \E p \in Handlers :
        /\ Excepted(p)
        /\ op[p] = "pro"
        /\ Has(error_msg[p], kwLimit)
        /\ result[p].msg = Msg(MsgProError, error_msg[p])

-----------------------------------------------------------------------------
(* C3 *)

\* None, empty or whitespace only
IsBlank(v) == v.isNone \/ \A i \in 1..Len(v.str) : v.str[i] \in Whitespace

\* Handler p enters a generation callback in this step
EntersGen(p) == id'[p] # id[p] /\ op'[p] \in Modes

\* Handler p's callback has returned (None, m) in this step without any
\* external call
StoppedWith(p, m) ==
    /\ pc'[p] = "done"
    /\ result'[p] = Pair(None, Msg(m, <<>>))
    /\ calls'[p] = <<>>

\* C3: a generation call in either mode checks text, then key, then the saved
\* voice, and returns at the first check that fails (blank text wins over a
\* blank key and a missing voice, a blank key over a missing voice), without
\* a clone, synthesize or delete call.
C3_ValidationOrder ==
    [][\A p \in Handlers :
        EntersGen(p) =>
            LET t == args'[p].text
                k == args'[p].key
                noVoice == saved_voice_path = None \/ ~voiceFile.exists
            IN  /\ IsBlank(t) => StoppedWith(p, MsgEmptyText)
                /\ ~IsBlank(t) /\ IsBlank(k) => StoppedWith(p, MsgNoKey)
                /\ ~IsBlank(t) /\ ~IsBlank(k) /\ noVoice => StoppedWith(p, MsgNoVoice)
      ]_vars

\* A call with whitespace-only text, a blank key and no saved voice has
\* returned the empty-text message
C3_Witness ==
    \E p \in Handlers :
        /\ GenDone(p)
        /\ args[p].text = Str(<<" ", "\t", "\n">>)
        /\ IsBlank(args[p].key)
        /\ saved_voice_path = None
        /\ result[p] = Pair(None, Msg(MsgEmptyText, <<>>))
        /\ calls[p] = <<>>

-----------------------------------------------------------------------------
(* C4 *)

\* C4: a generation call that reached its delete-voice call (its clone and
\* synthesize steps succeeded) has returned (output path, success message),
\* whether the deletion succeeded or raised.
C4_DeleteFailureSwallowed ==
    \A p \in Handlers :
        GenDone(p) /\ Deletes(p) # {} => result[p] = Success(op[p])

\* A Pro call whose delete-voice call raised has returned; the voice is still
\* in the account
C4_Witness ==
    \E p \in Handlers :
        /\ GenDone(p)
        /\ op[p] = "pro"
        /\ Called(p, "delete", FALSE)
        /\ voice_id[p] \in remoteVoices

-----------------------------------------------------------------------------
(* C5 *)

FailureTexts ==
    {MsgEmptyText, MsgNoKey, MsgNoVoice, MsgInvalidKey, MsgQuota, MsgPlan,
     MsgBasicError, MsgProPlan, MsgProError}

\* C5: no exception leaves a callback: save_voice always returns a status
\* string, and a generation callback always returns (None, failure message)
\* or (output path, success message).
C5_NothingEscapes ==
    \A p \in Handlers :
        /\ result[p].kind # "raised"
        /\ pc[p] = "done" =>
              IF op[p] = "save"
              THEN /\ result[p].kind = "status"
                   /\ result[p].msg.text \in {MsgNoAudio, MsgSaved, MsgSaveError}
              ELSE /\ result[p].kind = "pair"
                   /\ \/ result[p] = Success(op[p])
                      \/ /\ result[p].path = None
                         /\ result[p].msg.text \in FailureTexts

\* A generation given None as its text and as its key has returned a pair
C5_Witness ==
    \E p \in Handlers :
        /\ GenDone(p)
        /\ args[p].text = NoneVal
        /\ args[p].key = NoneVal
        /\ result[p].kind = "pair"

-----------------------------------------------------------------------------
(* C6 *)

\* C6: save_voice called with None returns the no-audio failure status and
\* leaves saved_voice_path (and the voice file) as it was.
C6_SaveNoneKeepsPath ==
    [][\A p \in Handlers :
        (id'[p] # id[p] /\ op'[p] = "save" /\ ~args'[p].audio) =>
            /\ saved_voice_path' = saved_voice_path
            /\ voiceFile' = voiceFile
            /\ pc'[p] = "done"
            /\ result'[p] = Status(Msg(MsgNoAudio, <<>>))
      ]_vars

\* save_voice(None) has returned after an earlier save had set the path
C6_Witness ==
    \E p \in Handlers :
        /\ pc[p] = "done"
        /\ op[p] = "save"
        /\ ~args[p].audio
        /\ result[p] = Status(Msg(MsgNoAudio, <<>>))
        /\ saved_voice_path = VoiceFilename

-----------------------------------------------------------------------------
(* C7 *)

\* C7 as claimed: save_voice called with a valid pair always returns the
\* success status and sets saved_voice_path to the voice file.
C7_ValidSaveAlwaysSucceeds ==
    \A p \in Handlers :
        pc[p] = "done" /\ op[p] = "save" /\ args[p].audio =>
            /\ result[p] = Status(Msg(MsgSaved, <<>>))
            /\ saved_voice_path = VoiceFilename

\* C7 as amended: save_voice called with a valid pair either returns the
\* success status, having overwritten the voice file with the recording and
\* set saved_voice_path to it, or (sf.write raised) returns the save-error
\* status and leaves saved_voice_path as it was; and a generation call with
\* non-blank text and key that starts while the path is set and the file is
\* on disk passes the saved-voice check.
C7_SaveThenGenerate ==
    [][\A p \in Handlers :
        /\ (pc[p] = "sf_write" /\ pc'[p] = "done") =>
              \/ /\ result'[p] = Status(Msg(MsgSaved, <<>>))
                 /\ voiceFile' = File(<<id[p]>>)
                 /\ saved_voice_path' = VoiceFilename
              \/ /\ result'[p] = Status(Msg(MsgSaveError, error_msg'[p]))
                 /\ saved_voice_path' = saved_voice_path
        /\ (/\ EntersGen(p)
            /\ ~IsBlank(args'[p].text)
            /\ ~IsBlank(args'[p].key)
            /\ saved_voice_path = VoiceFilename
            /\ voiceFile.exists) => pc'[p] = "clone"
      ]_vars

\* A generation has passed validation on the recording that the click before
\* it saved
C7_Witness ==
    \E p \in Handlers :
        /\ pc[p] = "clone"
        /\ saved_voice_path = VoiceFilename
        /\ voiceFile = File(<<id[p] - 1>>)

-----------------------------------------------------------------------------
(* C8 *)

\* C8: a generation call whose clone and synthesize steps succeeded (the
\* output was written and closed) returns (output path, success message), and
\* its external calls were: add, convert, then, after the output was closed,
\* exactly one delete of the voice id that its add returned.
C8_SuccessPath ==
    \A p \in Handlers :
        GenDone(p) /\ Called(p, "close", TRUE) =>
            /\ result[p] = Success(op[p])
            /\ Cardinality(Deletes(p)) = 1
            /\ Len(calls[p]) = 4
            /\ calls[p][1].api = "add" /\ calls[p][1].ok /\ calls[p][1].arg # 0
            /\ calls[p][2] = Call("convert", calls[p][1].arg, TRUE)
            /\ calls[p][3] = Call("close", 0, TRUE)
            /\ calls[p][4].api = "delete"
            /\ calls[p][4].arg = calls[p][1].arg

\* A Pro generation has returned success with two chunks written and its
\* voice deleted
C8_Witness ==
    \E p \in Handlers :
        /\ GenDone(p)
        /\ op[p] = "pro"
        /\ result[p] = Success("pro")
        /\ Called(p, "delete", TRUE)
        /\ outFile = File(<<id[p], id[p]>>)

-----------------------------------------------------------------------------
(* C9 *)

\* C9: nothing serializes the callbacks on the two shared files: while one
\* handler is inside its with block on the output file, the other can still
\* open (truncate) the file and write its chunks, and a save can overwrite
\* the voice file while a generation is about to clone from it; and a
\* generation whose synthesis completed reports success whatever the output
\* file holds.
C9_NoLock ==
    \A p \in Handlers, q \in Handlers :
        p # q =>
            /\ pc[p] = "stream" /\ pc[q] = "open" => ENABLED OpenOut(q)
            /\ pc[p] = "stream" /\ pc[q] = "stream" /\ consumed[q] < MaxChunks
                   => ENABLED WriteChunk(q)
            /\ pc[p] = "clone" /\ pc[q] = "sf_write" => ENABLED SfWriteOk(q)
            /\ GenDone(p) /\ Called(p, "close", TRUE) => result[p] = Success(op[p])

\* A generation has returned success while the output file holds chunks of
\* its own and of the other handler's generation
C9_Witness ==
    \E p \in Handlers, q \in Handlers :
        /\ p # q
        /\ GenDone(p)
        /\ result[p] = Success(op[p])
        /\ op[q] \in Modes
        /\ \E i \in 1..Len(outFile.data) : outFile.data[i] = id[p]
        /\ \E i \in 1..Len(outFile.data) : outFile.data[i] = id[q]

-----------------------------------------------------------------------------
(* C10 *)

\* The complete output of handler p's generation: the chunks it wrote
OwnOutput(p) == File([i \in 1..pos[p] |-> id[p]])

\* C10 as claimed: a generation call that returned (None, failure message)
\* has left generated_speech.mp3 as it was before the call.
C10_FailureLeavesOutput ==
    \A p \in Handlers :
        GenDone(p) /\ result[p].path = None => outFile = outBefore[p]

\* C10 as amended: a generation call that returned (None, failure message)
\* has left generated_speech.mp3 as it was before the call if it failed
\* before it opened the file for writing (validation, clone, convert or the
\* open itself); if it failed while streaming, the file was truncated and
\* holds just the chunks written before the failure.
C10_FailureBeforeOpenLeavesOutput ==
    \A p \in Handlers :
        GenDone(p) /\ result[p].path = None =>
            IF Called(p, "close", FALSE)
            THEN outFile = OwnOutput(p)
            ELSE outFile = outBefore[p]

\* A generation failed while streaming and has left one chunk where an
\* output stood before
C10_Witness ==
    \E p \in Handlers :
        /\ GenDone(p)
        /\ result[p].path = None
        /\ Called(p, "close", FALSE)
        /\ outBefore[p].exists
        /\ outFile = File(<<id[p]>>)

====
